---- MODULE Spec2Model ----
(***************************************************************************)
(* gotcpspy: a TCP tap.  main accepts connections; process_connection      *)
(* dials the target, starts three logger goroutines (logger_loop) and two  *)
(* copier goroutines (pass_through), waits for both acks and stops the     *)
(* loggers.  All channels are unbuffered, so a send and the matching       *)
(* receive are one joint step.                                             *)
(***************************************************************************)
EXTENDS Integers, Sequences, FiniteSets, TLC

\* ------------------------------------------------------------------ bounds
MaxConn == 2          \* connections the listener accepts
MaxAcceptFail == 1    \* failed accepts
MaxPackets == 2       \* non-empty reads the peers of a connection supply
BufSize == 2          \* length of a copier's buffer b (10240 in the source)
MaxTicks == 2         \* half seconds the clock advances

Sessions == 1..MaxConn
Dirs == {"to", "from"}                         \* named after their binary logger
Sinks == {"logger", "from_logger", "to_logger"}
Conns == {"local", "remote"}

\* Channel{remote, local, logger, to_logger, ack} and
\* Channel{local, remote, logger, from_logger, ack}
ChanFrom(d) == IF d = "to" THEN "remote" ELSE "local"
ChanTo(d) == IF d = "to" THEN "local" ELSE "remote"
ChanBinary(d) == IF d = "to" THEN "to_logger" ELSE "from_logger"

\* The k-th byte a peer sends on a connection; every byte of a stream is
\* distinct, so loss, duplication and reordering are all visible.
StreamByte(c, k) == IF c = "local" THEN k ELSE 10 + k

VARIABLES
    arrivals,   \* environment: connections that clients will open
    traffic,    \* environment: non-empty reads the peers will still supply
    proc,       \* "running", "panicked" (nil dereference) or "exited" (die)
    conn_n,     \* main: the next sequence number
    naccept,    \* connections accepted so far
    nfail,      \* accepts that failed so far
    out,        \* operator output (stdout and stderr), in order
    spc,        \* process_connection: position, per session
    seqno,      \* process_connection: its conn_n parameter
    remote,     \* process_connection: "nil" or "conn"
    closes,     \* per session and connection: Close() calls so far
    rpos,       \* per session and connection: bytes read from it so far
    delivered,  \* per session and connection: bytes written to it
    dpc,        \* pass_through: position, per session and direction
    b,          \* pass_through: the buffer
    n,          \* pass_through: length of the last read
    offset,     \* pass_through: offset
    packet_n,   \* pass_through: packet_n
    acked,      \* per session and direction: sends on ack performed
    kpc,        \* logger_loop: position, per session and sink
    held,       \* logger_loop: the chunk b it received last
    recvd,      \* per session and sink: the chunks received, in order
    file,       \* per session and sink: the data of each f.Write, in order
    ticks,      \* environment: half seconds the clock will still advance
    now,        \* time.Now(), in half seconds
    started,    \* process_connection: started
    fname       \* per session and sink: log_name

vars == <<arrivals, traffic, proc, conn_n, naccept, nfail, out, spc, seqno,
          remote, closes, rpos, delivered, dpc, b, n, offset, packet_n, acked,
          kpc, held, recvd, file, ticks, now, started, fname>>

clockVars == <<ticks, now>>
listenerVars == <<arrivals, conn_n, naccept, nfail>>
connVars == <<closes, rpos, delivered>>
copierVars == <<dpc, b, n, offset, packet_n, acked>>
sinkVars == <<kpc, held, recvd, file>>

\* ------------------------------------------------------------------ chunks
\* A chunk is a []byte.  data is its content (a text line is one unit);
\* ref names the copier whose buffer the slice aliases ("none": a fresh
\* array, as []byte(fmt.Sprintf(...)) and []byte(hex.Dump(...)) make).
Line(t, d, pn, off, len, bytes) ==
    [t |-> t, d |-> d, pn |-> pn, off |-> off, n |-> len, bytes |-> bytes]
Text(l) == [data |-> <<l>>, ref |-> "none"]
Empty == [data |-> <<>>, ref |-> "none"]
Slice(d, data) == [data |-> data, ref |-> d]

ZeroBuf == [j \in 1..BufSize |-> 0]

Started ==
    /\ proc = "running"
    /\ conn_n = 1
    /\ naccept = 0
    /\ nfail = 0
    /\ out = <<>>
    /\ spc = [i \in Sessions |-> "none"]
    /\ seqno = [i \in Sessions |-> 0]
    /\ remote = [i \in Sessions |-> "nil"]
    /\ closes = [i \in Sessions |-> [c \in Conns |-> 0]]
    /\ rpos = [i \in Sessions |-> [c \in Conns |-> 0]]
    /\ delivered = [i \in Sessions |-> [c \in Conns |-> <<>>]]
    /\ dpc = [i \in Sessions |-> [d \in Dirs |-> "none"]]
    /\ b = [i \in Sessions |-> [d \in Dirs |-> ZeroBuf]]
    /\ n = [i \in Sessions |-> [d \in Dirs |-> 0]]
    /\ offset = [i \in Sessions |-> [d \in Dirs |-> 0]]
    /\ packet_n = [i \in Sessions |-> [d \in Dirs |-> 0]]
    /\ acked = [i \in Sessions |-> [d \in Dirs |-> 0]]
    /\ kpc = [i \in Sessions |-> [k \in Sinks |-> "none"]]
    /\ held = [i \in Sessions |-> [k \in Sinks |-> Empty]]
    /\ recvd = [i \in Sessions |-> [k \in Sinks |-> <<>>]]
    /\ file = [i \in Sessions |-> [k \in Sinks |-> <<>>]]
    /\ now = 0
    /\ started = [i \in Sessions |-> 0]
    /\ fname = [i \in Sessions |-> [k \in Sinks |-> <<>>]]

\* One client connects; its peers supply up to MaxPackets non-empty reads.
Init == Started /\ arrivals = 1 /\ traffic = MaxPackets /\ ticks = 0

\* MaxConn clients connect; their peers send nothing before they disconnect.
InitListener == Started /\ arrivals = MaxConn /\ traffic = 0 /\ ticks = 0

\* One client of silent peers connects while the clock advances.
InitClock == Started /\ arrivals = 1 /\ traffic = 0 /\ ticks = MaxTicks

\* ------------------------------------------------------------------ names
\* t.Format("2006.01.02-15.04.05"): the time to the second
format_time(t) == t \div 2

\* a.String() of a TCP address: host, ":" and port
AddrString(host, port) == <<host, ":", port>>

\* strings.Replace(a.String(), ":", "-", -1)
printable_addr(a) == [j \in 1..Len(a) |-> IF a[j] = ":" THEN "-" ELSE a[j]]

\* remote.LocalAddr() and remote.RemoteAddr() of the outbound connection.
\* Every session is given the same local port: log names then differ between
\* sessions only where the program makes them differ.
LocalInfo == printable_addr(AddrString("tap", "50000"))
RemoteInfo == printable_addr(AddrString("target", "80"))

\* mutant of connection_logger_name: the sequence number is left out
connection_logger_name_no_seq(t, conn) ==
    <<"log-", format_time(t), "-", 0, "-">> \o LocalInfo \o <<"-">>
        \o RemoteInfo \o <<".log">>

\* fmt.Sprintf("log-%s-%04d-%s-%s.log", format_time(time.Now()), conn_n,
\*             local_info, remote_info)
connection_logger_name(t, conn) ==
    <<"log-", format_time(t), "-", conn, "-">> \o LocalInfo \o <<"-">>
        \o RemoteInfo \o <<".log">>

\* mutant of binary_logger_name: the sequence number is left out
binary_logger_name_no_seq(t, conn, peer) ==
    <<"log-binary-", format_time(t), "-", 0, "-">> \o peer \o <<".log">>

\* fmt.Sprintf("log-binary-%s-%04d-%s.log", format_time(time.Now()), conn_n,
\*             peer)
binary_logger_name(t, conn, peer) ==
    <<"log-binary-", format_time(t), "-", conn, "-">> \o peer \o <<".log">>

\* go connection_logger(logger, conn_n, local_info, remote_info)
\* go binary_logger(from_logger, conn_n, local_info)
\* go binary_logger(to_logger, conn_n, remote_info)
log_name(k, t, conn) ==
    IF k = "logger" THEN connection_logger_name(t, conn)
    ELSE IF k = "from_logger" THEN binary_logger_name(t, conn, LocalInfo)
    ELSE binary_logger_name(t, conn, RemoteInfo)

\* The clock passes to the next half second
tick ==
    /\ proc = "running"
    /\ ticks > 0
    /\ ticks' = ticks - 1
    /\ now' = now + 1
    /\ UNCHANGED <<started, fname, proc, traffic, listenerVars, out, spc, seqno,
                   remote, connVars, copierVars, sinkVars>>

\* ------------------------------------------------------------ logger_loop
\* mutant of AfterReceive: the length test is missing
NeverBreak(chunk) == "write"

\* b := <-data; if len(b) == 0 { break } (the deferred f.Close() runs)
AfterReceive(chunk) == IF Len(chunk.data) = 0 THEN "closed" ELSE "write"

\* A send on channel k of session i: the sink must be waiting in <-data.
Send(i, k, chunk) ==
    /\ kpc[i][k] = "recv"
    /\ held' = [held EXCEPT ![i][k] = chunk]
    /\ kpc' = [kpc EXCEPT ![i][k] = AfterReceive(chunk)]
    /\ recvd' = [recvd EXCEPT ![i][k] = Append(@, chunk)]
    /\ UNCHANGED file

\* log_name := fmt.Sprintf(..., format_time(time.Now()), ...); os.Create
\* succeeds
logger_create(i, k) ==
    /\ proc = "running"
    /\ kpc[i][k] = "create"
    /\ kpc' = [kpc EXCEPT ![i][k] = "recv"]
    /\ fname' = [fname EXCEPT ![i][k] = log_name(k, now, seqno[i])]
    /\ file' = [file EXCEPT ![i][k] = <<>>]
    /\ UNCHANGED <<clockVars, started, proc, traffic, listenerVars, out, spc, seqno, remote, connVars,
                   copierVars, held, recvd>>

\* os.Create fails: die
logger_create_fail(i, k) ==
    /\ proc = "running"
    /\ kpc[i][k] = "create"
    /\ out' = Append(out, [t |-> "Unable to create file", s |-> i])
    /\ proc' = "exited"
    /\ UNCHANGED <<clockVars, started, fname, traffic, listenerVars, spc, seqno, remote, connVars, copierVars,
                   sinkVars>>

\* What f.Write(b) can find in b.  A chunk that aliases a copier's buffer is
\* read while the copier may be reading into that buffer (a data race): each
\* byte is the one sent or the one in the buffer now.
Written(i, chunk) ==
    IF chunk.ref = "none"
    THEN {chunk.data}
    ELSE {[j \in 1..Len(chunk.data) |->
             IF j \in S THEN b[i][chunk.ref][j] ELSE chunk.data[j]] :
          S \in SUBSET (1..Len(chunk.data))}

\* f.Write(b); f.Sync()
logger_write(i, k) ==
    /\ proc = "running"
    /\ kpc[i][k] = "write"
    /\ \E w \in Written(i, held[i][k]) :
          file' = [file EXCEPT ![i][k] = Append(@, w)]
    /\ kpc' = [kpc EXCEPT ![i][k] = "recv"]
    /\ UNCHANGED <<clockVars, started, fname, proc, traffic, listenerVars, out, spc, seqno, remote, connVars,
                   copierVars, held, recvd>>

\* ----------------------------------------------------------- pass_through
\* mutant of BufPrefix: b instead of b[:n]
WholeBuf(buf, len) == buf

\* b[:n]
BufPrefix(buf, len) == SubSeq(buf, 1, len)

\* mutant of AddOffset: offset += 1
AddOne(off, len) == off + 1

\* offset += n
AddOffset(off, len) == off + len

\* c.from.Read(b) returns n > 0
read_data(i, d) ==
    /\ proc = "running"
    /\ dpc[i][d] = "read"
    /\ closes[i][ChanFrom(d)] = 0
    /\ traffic > 0
    /\ traffic' = traffic - 1
    /\ \E m \in 1..BufSize :
          /\ b' = [b EXCEPT ![i][d] =
                     [j \in 1..BufSize |->
                        IF j <= m
                        THEN StreamByte(ChanFrom(d), rpos[i][ChanFrom(d)] + j)
                        ELSE b[i][d][j]]]
          /\ n' = [n EXCEPT ![i][d] = m]
          /\ rpos' = [rpos EXCEPT ![i][ChanFrom(d)] = @ + m]
    /\ dpc' = [dpc EXCEPT ![i][d] = "recv"]
    /\ UNCHANGED <<clockVars, started, fname, proc, listenerVars, out, spc, seqno, remote, closes,
                   delivered, offset, packet_n, acked, sinkVars>>

\* mutant of read_zero: a read of no bytes is handled like a chunk
read_zero_logged(i, d) ==
    /\ proc = "running"
    /\ dpc[i][d] = "read"
    /\ closes[i][ChanFrom(d)] = 0
    /\ n' = [n EXCEPT ![i][d] = 0]
    /\ dpc' = [dpc EXCEPT ![i][d] = "recv"]
    /\ UNCHANGED <<clockVars, started, fname, proc, traffic, listenerVars, out, spc, seqno, remote, connVars,
                   b, offset, packet_n, acked, sinkVars>>

\* c.from.Read(b) returns 0, nil: the loop goes round
read_zero(i, d) ==
    /\ proc = "running"
    /\ dpc[i][d] = "read"
    /\ closes[i][ChanFrom(d)] = 0
    /\ n' = [n EXCEPT ![i][d] = 0]
    /\ UNCHANGED <<clockVars, started, fname, proc, traffic, listenerVars, out, spc, seqno, remote, connVars,
                   dpc, b, offset, packet_n, acked, sinkVars>>

\* c.from.Read(b) fails because the peer closed or reset the connection
read_peer_error(i, d) ==
    /\ proc = "running"
    /\ dpc[i][d] = "read"
    /\ closes[i][ChanFrom(d)] = 0
    /\ dpc' = [dpc EXCEPT ![i][d] = "disc"]
    /\ UNCHANGED <<clockVars, started, fname, proc, traffic, listenerVars, out, spc, seqno, remote, connVars,
                   b, n, offset, packet_n, acked, sinkVars>>

\* c.from.Read(b) fails because the connection was closed by this process
read_closed_error(i, d) ==
    /\ proc = "running"
    /\ dpc[i][d] = "read"
    /\ closes[i][ChanFrom(d)] > 0
    /\ dpc' = [dpc EXCEPT ![i][d] = "disc"]
    /\ UNCHANGED <<clockVars, started, fname, proc, traffic, listenerVars, out, spc, seqno, remote, connVars,
                   b, n, offset, packet_n, acked, sinkVars>>

\* mutant of send_disconnected: the copier leaves its loop without a line
skip_disconnected(i, d) ==
    /\ proc = "running"
    /\ dpc[i][d] = "disc"
    /\ dpc' = [dpc EXCEPT ![i][d] = "close_from"]
    /\ UNCHANGED <<clockVars, started, fname, proc, traffic, listenerVars, out, spc, seqno, remote, connVars,
                   b, n, offset, packet_n, acked, sinkVars>>

\* c.logger <- "Disconnected from ..."; break
send_disconnected(i, d) ==
    /\ proc = "running"
    /\ dpc[i][d] = "disc"
    /\ Send(i, "logger", Text(Line("Disconnected", d, 0, 0, 0, <<>>)))
    /\ dpc' = [dpc EXCEPT ![i][d] = "close_from"]
    /\ UNCHANGED <<clockVars, started, fname, proc, traffic, listenerVars, out, spc, seqno, remote, connVars,
                   b, n, offset, packet_n, acked>>

\* mutant of send_received: the "Sent" line is logged before the chunk is
\* handled
send_sent_first(i, d) ==
    /\ proc = "running"
    /\ dpc[i][d] = "recv"
    /\ Send(i, "logger", Text(Line("Sent", d, packet_n[i][d], 0, 0, <<>>)))
    /\ dpc' = [dpc EXCEPT ![i][d] = "hex"]
    /\ UNCHANGED <<clockVars, started, fname, proc, traffic, listenerVars, out, spc, seqno, remote, connVars,
                   b, n, offset, packet_n, acked>>

\* c.logger <- "Received (#packet_n, offset) n bytes from ..."
send_received(i, d) ==
    /\ proc = "running"
    /\ dpc[i][d] = "recv"
    /\ Send(i, "logger",
            Text(Line("Received", d, packet_n[i][d], offset[i][d], n[i][d], <<>>)))
    /\ dpc' = [dpc EXCEPT ![i][d] = "hex"]
    /\ UNCHANGED <<clockVars, started, fname, proc, traffic, listenerVars, out, spc, seqno, remote, connVars,
                   b, n, offset, packet_n, acked>>

\* c.logger <- []byte(hex.Dump(b[:n]))
send_hex(i, d) ==
    /\ proc = "running"
    /\ dpc[i][d] = "hex"
    /\ Send(i, "logger",
            Text(Line("Hex", d, 0, 0, 0, BufPrefix(b[i][d], n[i][d]))))
    /\ dpc' = [dpc EXCEPT ![i][d] = "bin"]
    /\ UNCHANGED <<clockVars, started, fname, proc, traffic, listenerVars, out, spc, seqno, remote, connVars,
                   b, n, offset, packet_n, acked>>

\* c.binary_logger <- b[:n]
send_binary(i, d) ==
    /\ proc = "running"
    /\ dpc[i][d] = "bin"
    /\ Send(i, ChanBinary(d), Slice(d, BufPrefix(b[i][d], n[i][d])))
    /\ dpc' = [dpc EXCEPT ![i][d] = "write"]
    /\ UNCHANGED <<clockVars, started, fname, proc, traffic, listenerVars, out, spc, seqno, remote, connVars,
                   b, n, offset, packet_n, acked>>

\* c.to.Write(b[:n]); the error is dropped.  A write to a connection this
\* process has closed fails and delivers nothing.
write_to(i, d) ==
    /\ proc = "running"
    /\ dpc[i][d] = "write"
    /\ delivered' = [delivered EXCEPT ![i][ChanTo(d)] =
                       IF closes[i][ChanTo(d)] = 0
                       THEN @ \o BufPrefix(b[i][d], n[i][d])
                       ELSE @]
    /\ dpc' = [dpc EXCEPT ![i][d] = "sent"]
    /\ UNCHANGED <<clockVars, started, fname, proc, traffic, listenerVars, out, spc, seqno, remote, closes, rpos,
                   b, n, offset, packet_n, acked, sinkVars>>

\* c.logger <- "Sent (#packet_n) to ..."; offset += n; packet_n += 1
send_sent(i, d) ==
    /\ proc = "running"
    /\ dpc[i][d] = "sent"
    /\ Send(i, "logger", Text(Line("Sent", d, packet_n[i][d], 0, 0, <<>>)))
    /\ offset' = [offset EXCEPT ![i][d] = AddOffset(@, n[i][d])]
    /\ packet_n' = [packet_n EXCEPT ![i][d] = @ + 1]
    /\ dpc' = [dpc EXCEPT ![i][d] = "read"]
    /\ UNCHANGED <<clockVars, started, fname, proc, traffic, listenerVars, out, spc, seqno, remote, connVars,
                   b, n, acked>>

\* c.from.Close()
close_from(i, d) ==
    /\ proc = "running"
    /\ dpc[i][d] = "close_from"
    /\ closes' = [closes EXCEPT ![i][ChanFrom(d)] = @ + 1]
    /\ dpc' = [dpc EXCEPT ![i][d] = "close_to"]
    /\ UNCHANGED <<clockVars, started, fname, proc, traffic, listenerVars, out, spc, seqno, remote, rpos,
                   delivered, b, n, offset, packet_n, acked, sinkVars>>

\* mutant of close_to: the write side is left open
close_to_skipped(i, d) ==
    /\ proc = "running"
    /\ dpc[i][d] = "close_to"
    /\ dpc' = [dpc EXCEPT ![i][d] = "ack"]
    /\ UNCHANGED <<clockVars, started, fname, proc, traffic, listenerVars, out, spc, seqno, remote, connVars,
                   b, n, offset, packet_n, acked, sinkVars>>

\* c.to.Close()
close_to(i, d) ==
    /\ proc = "running"
    /\ dpc[i][d] = "close_to"
    /\ closes' = [closes EXCEPT ![i][ChanTo(d)] = @ + 1]
    /\ dpc' = [dpc EXCEPT ![i][d] = "ack"]
    /\ UNCHANGED <<clockVars, started, fname, proc, traffic, listenerVars, out, spc, seqno, remote, rpos,
                   delivered, b, n, offset, packet_n, acked, sinkVars>>

\* ----------------------------------------------------- process_connection
\* remote, err := net.Dial("tcp", target) succeeds
dial_ok(i) ==
    /\ proc = "running"
    /\ spc[i] = "dial"
    /\ remote' = [remote EXCEPT ![i] = "conn"]
    /\ spc' = [spc EXCEPT ![i] = "addr"]
    /\ UNCHANGED <<clockVars, started, fname, proc, traffic, listenerVars, out, seqno, connVars, copierVars,
                   sinkVars>>

\* net.Dial fails: the error is printed and the function goes on
dial_fail(i) ==
    /\ proc = "running"
    /\ spc[i] = "dial"
    /\ out' = Append(out, [t |-> "Unable to connect", s |-> i])
    /\ spc' = [spc EXCEPT ![i] = "addr"]
    /\ UNCHANGED <<clockVars, started, fname, proc, traffic, listenerVars, seqno, remote, connVars, copierVars,
                   sinkVars>>

\* remote.LocalAddr() on the result of a successful dial
local_info(i) ==
    /\ proc = "running"
    /\ spc[i] = "addr"
    /\ remote[i] # "nil"
    /\ spc' = [spc EXCEPT ![i] = "spawn"]
    /\ UNCHANGED <<clockVars, started, fname, proc, traffic, listenerVars, out, seqno, remote, connVars,
                   copierVars, sinkVars>>

\* remote.LocalAddr() on a nil net.Conn: the goroutine panics, the process
\* with it
local_info_nil(i) ==
    /\ proc = "running"
    /\ spc[i] = "addr"
    /\ remote[i] = "nil"
    /\ proc' = "panicked"
    /\ UNCHANGED <<clockVars, started, fname, traffic, listenerVars, out, spc, seqno, remote, connVars,
                   copierVars, sinkVars>>

\* started := time.Now(); make(chan ...) x 4; go connection_logger;
\* go binary_logger x 2
start_loggers(i) ==
    /\ proc = "running"
    /\ spc[i] = "spawn"
    /\ started' = [started EXCEPT ![i] = now]
    /\ kpc' = [kpc EXCEPT ![i] = [k \in Sinks |-> "create"]]
    /\ spc' = [spc EXCEPT ![i] = "connected"]
    /\ UNCHANGED <<clockVars, fname, proc, traffic, listenerVars, out, seqno, remote, connVars,
                   copierVars, held, recvd, file>>

\* logger <- "Connected to ..."
send_connected(i) ==
    /\ proc = "running"
    /\ spc[i] = "connected"
    /\ Send(i, "logger", Text(Line("Connected", "none", 0, 0, 0, <<>>)))
    /\ spc' = [spc EXCEPT ![i] = "go_to"]
    /\ UNCHANGED <<clockVars, started, fname, proc, traffic, listenerVars, out, seqno, remote, connVars,
                   copierVars>>

\* go pass_through(&Channel{remote, local, logger, to_logger, ack})
go_to(i) ==
    /\ proc = "running"
    /\ spc[i] = "go_to"
    /\ dpc' = [dpc EXCEPT ![i]["to"] = "read"]
    /\ spc' = [spc EXCEPT ![i] = "go_from"]
    /\ UNCHANGED <<clockVars, started, fname, proc, traffic, listenerVars, out, seqno, remote, connVars,
                   b, n, offset, packet_n, acked, sinkVars>>

\* go pass_through(&Channel{local, remote, logger, from_logger, ack})
go_from(i) ==
    /\ proc = "running"
    /\ spc[i] = "go_from"
    /\ dpc' = [dpc EXCEPT ![i]["from"] = "read"]
    /\ spc' = [spc EXCEPT ![i] = "ack1"]
    /\ UNCHANGED <<clockVars, started, fname, proc, traffic, listenerVars, out, seqno, remote, connVars,
                   b, n, offset, packet_n, acked, sinkVars>>

\* mutant of AfterAck: a single <-ack
AfterOneAck(pc) == "finished"

\* <-ack; <-ack: where process_connection stands after a receive
AfterAck(pc) == IF pc = "ack1" THEN "ack2" ELSE "finished"

\* mutant of AfterSignal: the copier signals again
SignalAgain(d) == "ack"

\* c.ack <- true: pass_through returns
AfterSignal(d) == "done"

\* c.ack <- true in pass_through meets <-ack in process_connection
ack(i, d) ==
    /\ proc = "running"
    /\ dpc[i][d] = "ack"
    /\ spc[i] \in {"ack1", "ack2"}
    /\ acked' = [acked EXCEPT ![i][d] = @ + 1]
    /\ dpc' = [dpc EXCEPT ![i][d] = AfterSignal(d)]
    /\ spc' = [spc EXCEPT ![i] = AfterAck(spc[i])]
    /\ UNCHANGED <<clockVars, started, fname, proc, traffic, listenerVars, out, seqno, remote, connVars,
                   b, n, offset, packet_n, sinkVars>>

\* logger <- "Finished at ..., duration ..."
send_finished(i) ==
    /\ proc = "running"
    /\ spc[i] = "finished"
    /\ Send(i, "logger", Text(Line("Finished", "none", 0, 0, 0, <<>>)))
    /\ spc' = [spc EXCEPT ![i] = "stop_logger"]
    /\ UNCHANGED <<clockVars, started, fname, proc, traffic, listenerVars, out, seqno, remote, connVars,
                   copierVars>>

\* logger <- []byte{}
stop_logger(i) ==
    /\ proc = "running"
    /\ spc[i] = "stop_logger"
    /\ Send(i, "logger", Empty)
    /\ spc' = [spc EXCEPT ![i] = "stop_from"]
    /\ UNCHANGED <<clockVars, started, fname, proc, traffic, listenerVars, out, seqno, remote, connVars,
                   copierVars>>

\* from_logger <- []byte{}
stop_from(i) ==
    /\ proc = "running"
    /\ spc[i] = "stop_from"
    /\ Send(i, "from_logger", Empty)
    /\ spc' = [spc EXCEPT ![i] = "stop_to"]
    /\ UNCHANGED <<clockVars, started, fname, proc, traffic, listenerVars, out, seqno, remote, connVars,
                   copierVars>>

\* to_logger <- []byte{}
stop_to(i) ==
    /\ proc = "running"
    /\ spc[i] = "stop_to"
    /\ Send(i, "to_logger", Empty)
    /\ spc' = [spc EXCEPT ![i] = "done"]
    /\ UNCHANGED <<clockVars, started, fname, proc, traffic, listenerVars, out, seqno, remote, connVars,
                   copierVars>>

\* ------------------------------------------------------------------- main
\* mutant of NextConnN: the increment is missing
SameConnN(c) == c

\* conn_n += 1
NextConnN(c) == c + 1

\* ln.Accept() succeeds: go process_connection(conn, conn_n, target); conn_n += 1
accept_ok ==
    /\ proc = "running"
    /\ naccept < arrivals
    /\ naccept' = naccept + 1
    /\ spc' = [spc EXCEPT ![naccept + 1] = "dial"]
    /\ seqno' = [seqno EXCEPT ![naccept + 1] = conn_n]
    /\ conn_n' = NextConnN(conn_n)
    /\ UNCHANGED <<clockVars, started, fname, proc, traffic, arrivals, nfail, out, remote, connVars, copierVars, sinkVars>>

\* mutant of accept_fail: the failure ends the process, as a failed Listen does
accept_fail_exit ==
    /\ proc = "running"
    /\ nfail < MaxAcceptFail
    /\ nfail' = nfail + 1
    /\ out' = Append(out, [t |-> "Accept failed", s |-> 0])
    /\ proc' = "exited"
    /\ UNCHANGED <<clockVars, started, fname, traffic, arrivals, conn_n, naccept,
                   spc, seqno, remote, connVars, copierVars, sinkVars>>

\* ln.Accept() fails: the error is printed
accept_fail ==
    /\ proc = "running"
    /\ nfail < MaxAcceptFail
    /\ nfail' = nfail + 1
    /\ out' = Append(out, [t |-> "Accept failed", s |-> 0])
    /\ UNCHANGED <<clockVars, started, fname, proc, traffic, arrivals, conn_n, naccept, spc, seqno, remote, connVars,
                   copierVars, sinkVars>>

\* ------------------------------------------------------------------- Next
\* process_connection, the copiers' shutdown path and the loggers
Session ==
    \/ \E i \in Sessions : dial_ok(i)
    \/ \E i \in Sessions : dial_fail(i)
    \/ \E i \in Sessions : local_info(i)
    \/ \E i \in Sessions : local_info_nil(i)
    \/ \E i \in Sessions : start_loggers(i)
    \/ \E i \in Sessions : send_connected(i)
    \/ \E i \in Sessions : go_to(i)
    \/ \E i \in Sessions : go_from(i)
    \/ \E i \in Sessions, d \in Dirs : ack(i, d)
    \/ \E i \in Sessions : send_finished(i)
    \/ \E i \in Sessions : stop_logger(i)
    \/ \E i \in Sessions : stop_from(i)
    \/ \E i \in Sessions : stop_to(i)
    \/ \E i \in Sessions, d \in Dirs : read_zero(i, d)
    \/ \E i \in Sessions, d \in Dirs : read_peer_error(i, d)
    \/ \E i \in Sessions, d \in Dirs : read_closed_error(i, d)
    \/ \E i \in Sessions, d \in Dirs : send_disconnected(i, d)
    \/ \E i \in Sessions, d \in Dirs : close_from(i, d)
    \/ \E i \in Sessions, d \in Dirs : close_to(i, d)
    \/ \E i \in Sessions, k \in Sinks : logger_create(i, k)
    \/ \E i \in Sessions, k \in Sinks : logger_create_fail(i, k)
    \/ \E i \in Sessions, k \in Sinks : logger_write(i, k)

\* the copiers' handling of a non-empty read
Relay ==
    \/ \E i \in Sessions, d \in Dirs : read_data(i, d)
    \/ \E i \in Sessions, d \in Dirs : send_received(i, d)
    \/ \E i \in Sessions, d \in Dirs : send_hex(i, d)
    \/ \E i \in Sessions, d \in Dirs : send_binary(i, d)
    \/ \E i \in Sessions, d \in Dirs : write_to(i, d)
    \/ \E i \in Sessions, d \in Dirs : send_sent(i, d)

\* One connection with traffic
Next == accept_ok \/ Session \/ Relay

Spec == Init /\ [][Next]_vars

\* Several connections of silent peers, and accepts that fail
NextListener == accept_ok \/ accept_fail \/ Session

SpecListener == InitListener /\ [][NextListener]_vars

\* One connection of silent peers, and the clock
NextClock == accept_ok \/ tick \/ Session

SpecClock == InitClock /\ [][NextClock]_vars

\* Every goroutine that can take a step of its own eventually takes it.  What
\* the environment decides (a client connecting, an accept failing, a peer
\* sending or disconnecting) is not forced.
Fairness ==
    /\ \A i \in Sessions :
          WF_vars(dial_ok(i) \/ dial_fail(i) \/ local_info(i) \/ local_info_nil(i)
                  \/ start_loggers(i) \/ send_connected(i) \/ go_to(i)
                  \/ go_from(i) \/ send_finished(i) \/ stop_logger(i)
                  \/ stop_from(i) \/ stop_to(i))
    /\ \A i \in Sessions, d \in Dirs :
          WF_vars(ack(i, d) \/ read_closed_error(i, d) \/ send_disconnected(i, d)
                  \/ close_from(i, d) \/ close_to(i, d))
    /\ \A i \in Sessions, k \in Sinks :
          WF_vars(logger_create(i, k) \/ logger_create_fail(i, k)
                  \/ logger_write(i, k))

FairListener == SpecListener /\ Fairness

\* --------------------------------------------------------------- claims
Launched(i, d) == dpc[i][d] # "none"
Signaled(i, d) == acked[i][d] >= 1
BothSignaled(i) == \A d \in Dirs : Signaled(i, d)
DialSucceeded(i) == remote[i] = "conn"

\* The lines handed to the text sink of session i so far
Enqueued(i) == [j \in 1..Len(recvd[i]["logger"]) |-> recvd[i]["logger"][j].data]
FinishedEnqueued(i) ==
    \E j \in 1..Len(Enqueued(i)) :
        Len(Enqueued(i)[j]) = 1 /\ Enqueued(i)[j][1].t = "Finished"

\* C1: a session whose dial succeeded launches exactly its two copiers, never
\* enqueues the "Finished" line before both have signaled, and once both have
\* signaled eventually enqueues it.  (A process ended by die, the documented
\* fatal exit on a log file that cannot be created, is not held against it.)
C1_FinishedIffBothSignaled ==
    /\ [](\A i \in Sessions : FinishedEnqueued(i) => BothSignaled(i))
    /\ \A i \in Sessions :
          (DialSucceeded(i) /\ BothSignaled(i))
              ~> (FinishedEnqueued(i) \/ proc = "exited")

\* C6: once a copier has left its loop on a read failure and closed both
\* connections, both copiers of the session eventually signal completion.
\* (A process ended by die is not held against it.)
C6_ShutdownPropagates ==
    \A i \in Sessions, d \in Dirs :
        (dpc[i][d] \in {"ack", "done"})
            ~> (BothSignaled(i) \/ proc = "exited")

\* The bytes copier d of session i has read, and those it has passed to
\* c.to.Write (all but the chunk it is still logging)
ReadBytes(i, d) ==
    [j \in 1..rpos[i][ChanFrom(d)] |-> StreamByte(ChanFrom(d), j)]
InHand(i, d) == IF dpc[i][d] \in {"recv", "hex", "bin", "write"} THEN n[i][d] ELSE 0
PassedOn(i, d) == SubSeq(ReadBytes(i, d), 1, Len(ReadBytes(i, d)) - InHand(i, d))
IsPrefix(s, t) == Len(s) <= Len(t) /\ s = SubSeq(t, 1, Len(s))

\* C2 as stated: the bytes delivered to the write-side connection are the
\* bytes the copier read, in order.
C2_DeliveredEqualsRead ==
    \A i \in Sessions, d \in Dirs : delivered[i][ChanTo(d)] = PassedOn(i, d)

\* C2 as amended: while the write-side connection has not been closed the
\* bytes delivered are exactly the bytes read, in order; after that the
\* chunks read are dropped, so what was delivered is a prefix of what was read.
C2_DeliveredPrefixOfRead ==
    \A i \in Sessions, d \in Dirs :
        /\ IsPrefix(delivered[i][ChanTo(d)], PassedOn(i, d))
        /\ closes[i][ChanTo(d)] = 0 => delivered[i][ChanTo(d)] = PassedOn(i, d)

\* a copier has relayed two chunks to a connection that is still open
C2_Witness ==
    \E i \in Sessions, d \in Dirs :
        /\ packet_n[i][d] >= 2
        /\ closes[i][ChanTo(d)] = 0
        /\ Len(delivered[i][ChanTo(d)]) >= 2
        /\ delivered[i][ChanTo(d)] = ReadBytes(i, d)

RECURSIVE Flatten(_)
Flatten(ss) == IF ss = <<>> THEN <<>> ELSE Head(ss) \o Flatten(Tail(ss))

\* C3: whenever a binary sink has written every chunk it was handed, its
\* file holds exactly the bytes its copier read and passed on, in order.
C3_BinaryLogComplete ==
    \A i \in Sessions, d \in Dirs :
        (kpc[i][ChanBinary(d)] \in {"recv", "closed"}
         /\ dpc[i][d] \notin {"recv", "hex", "bin"})
            => Flatten(file[i][ChanBinary(d)]) = ReadBytes(i, d)

\* C4: a session whose dial failed has printed the error, has started no
\* logger and no copier, and has not brought the process down.
DialFailed(i) == spc[i] \notin {"none", "dial"} /\ remote[i] = "nil"
C4_DialFailureAbandonsSession ==
    \A i \in Sessions :
        DialFailed(i) =>
            /\ \E j \in 1..Len(out) : out[j] = [t |-> "Unable to connect", s |-> i]
            /\ \A k \in Sinks : kpc[i][k] = "none"
            /\ \A d \in Dirs : dpc[i][d] = "none"
            /\ proc # "panicked"

\* C5: a sink that has received the stop sentinel (and closed its file) did
\* so after both copiers of its session signaled completion.
Stopped(i, k) ==
    kpc[i][k] = "closed" \/ \E j \in 1..Len(recvd[i][k]) : recvd[i][k][j] = Empty
C5_NoStopBeforeBothSignaled ==
    \A i \in Sessions, k \in Sinks :
        Stopped(i, k) => BothSignaled(i) /\ \A d \in Dirs : dpc[i][d] = "done"

\* all three sinks of a session that relayed data have been stopped
C5_Witness ==
    \E i \in Sessions :
        /\ \A k \in Sinks : kpc[i][k] = "closed"
        /\ \E d \in Dirs : packet_n[i][d] >= 1

\* C7: a copier signals at most once, only as its last step after both its
\* Close calls, and the two receives of the session take one signal from each
\* copier.
Closing(i) == {d \in Dirs : dpc[i][d] \in {"close_to", "ack", "done"}}
Closed(i) == {d \in Dirs : dpc[i][d] \in {"ack", "done"}}
C7_SignalsExactlyOnce ==
    \A i \in Sessions :
        /\ \A d \in Dirs :
              /\ acked[i][d] <= 1
              /\ acked[i][d] = 1 <=> dpc[i][d] = "done"
        /\ closes[i]["local"] + closes[i]["remote"]
              = Cardinality(Closing(i)) + Cardinality(Closed(i))
        /\ \A c \in Conns : closes[i][c] >= Cardinality(Closed(i))
        /\ spc[i] = "ack1" => \A d \in Dirs : acked[i][d] = 0
        /\ spc[i] = "ack2" => acked[i]["to"] + acked[i]["from"] = 1
        /\ spc[i] \in {"finished", "stop_logger", "stop_from", "stop_to", "done"}
              => \A d \in Dirs : acked[i][d] = 1

\* both receives of a session are done, after a copier relayed data
C7_Witness ==
    \E i \in Sessions :
        /\ spc[i] = "finished"
        /\ BothSignaled(i)
        /\ \E d \in Dirs : packet_n[i][d] >= 1

\* The "Received" lines copier d of session i has handed to the text sink
IsReceived(d, chunk) ==
    Len(chunk) = 1 /\ chunk[1].t = "Received" /\ chunk[1].d = d
ReceivedLines(i, d) ==
    SelectSeq(Enqueued(i), LAMBDA chunk : IsReceived(d, chunk))
RECURSIVE SumN(_, _)
SumN(ls, k) == IF k = 0 THEN 0 ELSE ls[k][1].n + SumN(ls, k - 1)

\* C8: the k-th "Received" line of a copier carries counter k-1 and the sum
\* of the lengths of the chunks before it, and every chunk is non-empty, so
\* counter and offset strictly increase.
C8_CountersAndOffsets ==
    \A i \in Sessions, d \in Dirs :
        \A k \in 1..Len(ReceivedLines(i, d)) :
            /\ ReceivedLines(i, d)[k][1].pn = k - 1
            /\ ReceivedLines(i, d)[k][1].n > 0
            /\ ReceivedLines(i, d)[k][1].off = SumN(ReceivedLines(i, d), k - 1)

\* a copier has logged a second chunk after a first one of two bytes
C8_Witness ==
    \E i \in Sessions, d \in Dirs :
        /\ Len(ReceivedLines(i, d)) >= 2
        /\ ReceivedLines(i, d)[1][1].n = 2
        /\ ReceivedLines(i, d)[2][1].off = 2

\* C9: sequence numbers start at 1, strictly increase in accept order and
\* are never handed out again.
C9_SequenceNumbers ==
    /\ naccept >= 1 => seqno[1] = 1
    /\ \A i, j \in 1..naccept : i < j => seqno[i] < seqno[j]
    /\ \A i \in 1..naccept : seqno[i] < conn_n

\* a second connection was accepted while the first session was running
C9_Witness ==
    /\ naccept = 2
    /\ spc[1] \notin {"none", "dial", "done"}
    /\ spc[2] # "none"
    /\ seqno[1] = 1 /\ seqno[2] = 2

\* C10: no f.Write is ever made with a zero-length chunk; a zero-length
\* chunk is the last thing a sink receives and leaves it closed; and every
\* chunk received before has been written when the sink is not in f.Write.
C10_SentinelStopsSink ==
    \A i \in Sessions, k \in Sinks :
        /\ \A j \in 1..Len(file[i][k]) : Len(file[i][k][j]) > 0
        /\ \A j \in 1..Len(recvd[i][k]) :
              Len(recvd[i][k][j].data) = 0
                  => j = Len(recvd[i][k]) /\ kpc[i][k] = "closed"
        /\ kpc[i][k] = "closed" =>
              /\ Len(recvd[i][k]) >= 1
              /\ Len(recvd[i][k][Len(recvd[i][k])].data) = 0
              /\ Len(file[i][k]) = Len(recvd[i][k]) - 1
        /\ kpc[i][k] = "recv" => Len(file[i][k]) = Len(recvd[i][k])
        /\ kpc[i][k] = "write" => Len(file[i][k]) = Len(recvd[i][k]) - 1
        /\ \A j \in 1..Len(file[i][k]) :
              /\ Len(file[i][k][j]) = Len(recvd[i][k][j].data)
              /\ recvd[i][k][j].ref = "none" => file[i][k][j] = recvd[i][k][j].data

\* a text sink and a binary sink were stopped after writing what they got
C10_Witness ==
    \E i \in Sessions :
        /\ kpc[i]["logger"] = "closed" /\ Len(file[i]["logger"]) >= 5
        /\ \E d \in Dirs :
              kpc[i][ChanBinary(d)] = "closed" /\ Len(file[i][ChanBinary(d)]) >= 1

\* C11: every sink appends to its file the chunks it was handed, with the
\* bytes they had when enqueued, in enqueue order.
C11_AppendedInEnqueueOrder ==
    \A i \in Sessions, k \in Sinks :
        /\ Len(file[i][k]) <= Len(recvd[i][k])
        /\ \A j \in 1..Len(file[i][k]) : file[i][k][j] = recvd[i][k][j].data

\* C12: the log files of concurrently running sessions have pairwise distinct
\* names, the sessions have different sequence numbers, and a file is written
\* by the one sink that created it.
Created(i, k) == kpc[i][k] \notin {"none", "create"}
WritersOf(name) ==
    {ik \in Sessions \X Sinks : Created(ik[1], ik[2]) /\ fname[ik[1]][ik[2]] = name}
C12_DistinctLogFiles ==
    /\ \A i, j \in 1..naccept : i # j => seqno[i] # seqno[j]
    /\ \A i \in Sessions, k \in Sinks :
          Created(i, k) => WritersOf(fname[i][k]) = {<<i, k>>}

\* two sessions run at once, each with its three files, each text log written
C12_Witness ==
    /\ \A i \in {1, 2}, k \in Sinks : Created(i, k)
    /\ \A i \in {1, 2} : spc[i] \in {"ack1", "ack2"} /\ Len(file[i]["logger"]) >= 1
    /\ Cardinality({fname[i][k] : i \in {1, 2}, k \in Sinks}) = 6

\* C13: a failed accept prints the error and changes neither the process, nor
\* the sequence number, nor any session; every sequence number handed out so
\* far went to an accepted connection.
C13_AcceptFailureContinues ==
    [][nfail' # nfail =>
          /\ out' = Append(out, [t |-> "Accept failed", s |-> 0])
          /\ proc' = "running"
          /\ conn_n' = conn_n /\ naccept' = naccept
          /\ spc' = spc /\ seqno' = seqno /\ kpc' = kpc /\ dpc' = dpc
          /\ (naccept < arrivals => ENABLED accept_ok)']_vars

\* after a failed accept two connections were accepted, numbered 1 and 2
C13_Witness ==
    /\ nfail >= 1 /\ Len(out) >= 1 /\ out[1].t = "Accept failed"
    /\ naccept = 2 /\ seqno[2] = 2 /\ conn_n = 3
    /\ proc = "running"

\* C14: the time stamp in the names of a session's three log files is the
\* session's start time, the same in all three.
C14_StampIsSessionStart ==
    \A i \in Sessions, k \in Sinks :
        Created(i, k) => fname[i][k] = log_name(k, started[i], seqno[i])

\* C15: a chunk handed to a binary sink keeps its bytes until the sink has
\* appended it: the copier's buffer still holds them while the sink is about
\* to write.
C15_ChunkImmutableAfterEnqueue ==
    \A i \in Sessions, k \in Sinks :
        (kpc[i][k] = "write" /\ held[i][k].ref # "none")
            => BufPrefix(b[i][held[i][k].ref], Len(held[i][k].data))
                   = held[i][k].data

\* C16: once both copiers of a session have signaled, the session eventually
\* returns and its three sinks have closed their files, so that none of its
\* goroutines is left blocked.  (A process ended by die is not held against
\* it.)
SessionReleased(i) ==
    /\ spc[i] = "done"
    /\ \A k \in Sinks : kpc[i][k] = "closed"
    /\ \A d \in Dirs : dpc[i][d] = "done"
C16_SessionTerminates ==
    \A i \in Sessions :
        (DialSucceeded(i) /\ BothSignaled(i))
            ~> (SessionReleased(i) \/ proc = "exited")

\* C17: a read of no bytes without error leaves the copier at its read and
\* changes neither its counter, nor its offset, nor any sink, nor either
\* connection; a copier never starts handling a chunk of no bytes.
C17_ZeroReadChangesNothing ==
    [][\A i \in Sessions, d \in Dirs :
          /\ (dpc[i][d] = "read" /\ n[i][d] # 0 /\ n'[i][d] = 0) =>
                /\ dpc' = dpc
                /\ packet_n' = packet_n /\ offset' = offset
                /\ recvd' = recvd /\ held' = held /\ kpc' = kpc /\ file' = file
                /\ delivered' = delivered /\ closes' = closes /\ acked' = acked
          /\ (dpc[i][d] = "read" /\ dpc'[i][d] = "recv") => n'[i][d] > 0]_vars

\* a copier that relayed a chunk is back at its read after a read of no bytes
C17_Witness ==
    \E i \in Sessions, d \in Dirs :
        /\ dpc[i][d] = "read" /\ n[i][d] = 0
        /\ packet_n[i][d] >= 1 /\ offset[i][d] >= 1
        /\ Len(recvd[i][ChanBinary(d)]) = packet_n[i][d]

\* The lines copier d of session i has handed to the text sink for its chunks
IsStep(d, chunk) ==
    Len(chunk) = 1 /\ chunk[1].d = d /\ chunk[1].t \in {"Received", "Hex", "Sent"}
StepLines(i, d) == SelectSeq(Enqueued(i), LAMBDA chunk : IsStep(d, chunk))
\* How far copier d is with the chunk in hand: text lines and binary chunks
TextDone(i, d) ==
    IF dpc[i][d] = "hex" THEN 1
    ELSE IF dpc[i][d] \in {"bin", "write", "sent"} THEN 2 ELSE 0
BinaryDone(i, d) == IF dpc[i][d] \in {"write", "sent"} THEN 1 ELSE 0
WriteDone(i, d) == IF dpc[i][d] = "sent" THEN n[i][d] ELSE 0

\* C18: a copier's text lines are Received #0, hex dump, Sent #0,
\* Received #1, ... in that order; the binary chunk follows the hex dump, the
\* write follows the binary chunk, and the "Sent" line and the increments
\* follow the write.
C18_StepOrder ==
    \A i \in Sessions, d \in Dirs :
        /\ Len(StepLines(i, d)) = 3 * packet_n[i][d] + TextDone(i, d)
        /\ \A j \in 1..Len(StepLines(i, d)) :
              /\ j % 3 = 1 => /\ StepLines(i, d)[j][1].t = "Received"
                              /\ StepLines(i, d)[j][1].pn = (j - 1) \div 3
              /\ j % 3 = 2 => StepLines(i, d)[j][1].t = "Hex"
              /\ j % 3 = 0 => /\ StepLines(i, d)[j][1].t = "Sent"
                              /\ StepLines(i, d)[j][1].pn = (j - 1) \div 3
        /\ Len(recvd[i][ChanBinary(d)]) \in
              {packet_n[i][d] + BinaryDone(i, d),
               packet_n[i][d] + BinaryDone(i, d) + 1}
        /\ Len(recvd[i][ChanBinary(d)]) = packet_n[i][d] + BinaryDone(i, d) + 1
              => spc[i] = "done" \/ (spc[i] = "stop_to" /\ d = "from")
        /\ Len(delivered[i][ChanTo(d)]) <= offset[i][d] + WriteDone(i, d)

\* a copier logged Received #0, Sent #0, Received #1 with a line of the
\* other copier in between
C18_Witness ==
    \E i \in Sessions, d \in Dirs :
        \E p, q, r, s \in 1..Len(Enqueued(i)) :
            /\ p < q /\ q < r /\ r < s
            /\ IsReceived(d, Enqueued(i)[p]) /\ Enqueued(i)[p][1].pn = 0
            /\ Len(Enqueued(i)[q]) = 1
            /\ Enqueued(i)[q][1].d \in Dirs \ {d}
            /\ IsStep(d, Enqueued(i)[r]) /\ Enqueued(i)[r][1].t = "Sent"
            /\ Enqueued(i)[r][1].pn = 0
            /\ IsReceived(d, Enqueued(i)[s]) /\ Enqueued(i)[s][1].pn = 1

\* Positions in the text channel of the lines of a kind
IsLine(t, d, chunk) == Len(chunk) = 1 /\ chunk[1].t = t /\ chunk[1].d = d
Positions(i, t, d) ==
    {j \in 1..Len(Enqueued(i)) : IsLine(t, d, Enqueued(i)[j])}
OfDir(i, d) ==
    {j \in 1..Len(Enqueued(i)) : Len(Enqueued(i)[j]) = 1 /\ Enqueued(i)[j][1].d = d}
Completed(i) == kpc[i]["logger"] = "closed"

\* C19: a copier enqueues at most one "Disconnected" line and no text after
\* it; "Finished" is enqueued once, after the "Disconnected" line of each
\* copier, and nothing but the stop sentinel follows it; the text log of a
\* completed session ends with the "Finished" line.
C19_LogEndsWithFinished ==
    \A i \in Sessions :
        /\ \A d \in Dirs :
              /\ Cardinality(Positions(i, "Disconnected", d)) <= 1
              /\ \A p \in Positions(i, "Disconnected", d) :
                    \A j \in OfDir(i, d) : j <= p
        /\ Cardinality(Positions(i, "Finished", "none")) <= 1
        /\ \A f \in Positions(i, "Finished", "none") :
              /\ \A d \in Dirs : \E p \in Positions(i, "Disconnected", d) : p < f
              /\ \A j \in 1..Len(Enqueued(i)) : j > f => Enqueued(i)[j] = <<>>
        /\ Completed(i) =>
              /\ Len(file[i]["logger"]) = Len(Enqueued(i)) - 1
              /\ Len(file[i]["logger"]) \in Positions(i, "Finished", "none")
              /\ file[i]["logger"][Len(file[i]["logger"])]
                    = <<Line("Finished", "none", 0, 0, 0, <<>>)>>

\* a session that relayed data has completed and its text log is closed
C19_Witness ==
    \E i \in Sessions :
        /\ Completed(i)
        /\ \E d \in Dirs : packet_n[i][d] >= 1
        /\ \A d \in Dirs : Cardinality(Positions(i, "Disconnected", d)) = 1

\* The connections copier d of session i has closed
ClosedBy(i, d) ==
    IF dpc[i][d] \in {"ack", "done"} THEN {ChanFrom(d), ChanTo(d)}
    ELSE IF dpc[i][d] = "close_to" THEN {ChanFrom(d)} ELSE {}

\* C20: each connection is closed once by each copier, both are closed twice
\* when "Finished" is enqueued, and a copier about to close a connection is
\* never held up, closed already or not.
C20_BothClosedBeforeFinished ==
    \A i \in Sessions :
        /\ \A c \in Conns :
              closes[i][c] = Cardinality({d \in Dirs : c \in ClosedBy(i, d)})
        /\ FinishedEnqueued(i) => \A c \in Conns : closes[i][c] = 2
        /\ \A d \in Dirs :
              /\ (proc = "running" /\ dpc[i][d] = "close_from")
                    => ENABLED close_from(i, d)
              /\ (proc = "running" /\ dpc[i][d] = "close_to")
                    => ENABLED close_to(i, d)
              /\ (proc = "running" /\ dpc[i][d] = "ack" /\ spc[i] \in {"ack1", "ack2"})
                    => ENABLED ack(i, d)

\* "Finished" is enqueued and a copier closed a connection the other copier
\* had closed before
C20_Witness ==
    \E i \in Sessions :
        /\ FinishedEnqueued(i)
        /\ \A c \in Conns : closes[i][c] = 2
        /\ \A d \in Dirs : acked[i][d] = 1

====
